---- MODULE Spec2Model ----
(***************************************************************************)
(* A model of deep_research.py: the Session Store (SessionManager, a       *)
(* sqlite table of session rows) and the recursive orchestrator            *)
(* (DeepResearchAgent).                                                    *)
(*                                                                         *)
(* Encoding of Python values:                                              *)
(*   - None / NULL for pid and parent_id is 0 (the code tests them by      *)
(*     truthiness, `if s['pid']`, so 0 and None behave alike);             *)
(*   - a text (report, error message, synthesis) is a record               *)
(*     [k |-> kind, t |-> the node it is about, main |-> the kind of the   *)
(*     main report it was made from, of |-> the sub-reports it was made    *)
(*     from]; NoText is None;                                              *)
(*   - a provider interaction id is a positive integer; the placeholder    *)
(*     strings "pending_start", "pending_recursion" and "pending_live"     *)
(*     are negative ones;                                                  *)
(*   - updated_at is kept as `recency`, the row ids ordered by             *)
(*     updated_at DESC, which is all the code ever reads of it;            *)
(*   - a key passed to get_session or update_session carries whether its   *)
(*     text is all digits (a local id) or not (an interaction id): the     *)
(*     provider's ids and the placeholders are never all digits;           *)
(*   - an optional list of files is a set with at most one sequence, and   *)
(*     the files column holds the JSON text of a list;                     *)
(*   - a prompt is the id of the node it is the question of; whether its   *)
(*     text is the empty string is kept in that node's record (empty).     *)
(***************************************************************************)
EXTENDS Integers, Sequences, FiniteSets, TLC

(* ------------------------------ bounds -------------------------------- *)
\* rows a store-level scenario creates (StoreSpec)
MaxRows == 2
\* rows of a store-level scenario with a family of three (FamilySpec)
MaxFamily == 3
\* process ids the liveness probe is asked about: 1..MaxPid
MaxPid == 1
\* the --depth values a run is started with: 1..MaxDepth
MaxDepth == 2
\* the --breadth values a run is started with: 1..MaxBreadth
MaxBreadth == 2
\* questions one gap analysis returns: 0..MaxQuestions
MaxQuestions == 2
\* nodes one run executes (the root and its descendants)
MaxTasks == 3
\* event ids one remote operation's event stream carries: 1..MaxEvents
MaxEvents == 2
\* follow_up calls that run at the same time, each in its own process
MaxClients == 2

(* ------------------------- program constants -------------------------- *)
\* "pending_start", the placeholder remote id of the start command
PendingStart == -1
\* "pending_recursion", the placeholder remote id of a recursive child
PendingRecursion == -2
\* "pending_live", the placeholder remote id of the TUI's live research
PendingLive == -3
\* the list command's default --limit
ListLimit == 10

VARIABLES
    rows,      \* the sessions table: a sequence of rows, row id = index
    recency,   \* the row ids ordered by updated_at DESC
    listed,    \* what the list_sessions call in progress read and returns
    call,      \* the store call a client of SessionManager made, and its answer
    run,       \* the command line of the run: depth, breadth, stream, adoption
    task       \* one record per node execution (_execute_recursion_level frame)

vars == <<rows, recency, listed, call, run, task>>

Pids == 1..MaxPid
Tasks == 1..MaxTasks
\* outcomes of os.kill(pid, 0): no error, ProcessLookupError, PermissionError
ProbeOutcomes == {"ok", "esrch", "eperm"}
\* the statuses list_sessions takes for finished (line 220)
Terminal == {"completed", "crashed", "failed", "cancelled"}

NoText == [k |-> "none", t |-> 0, main |-> "none", of |-> {}]
\* the report the provider returns for the prompt of node t
Report(t) == [k |-> "report", t |-> t, main |-> "none", of |-> {}]
\* "API Error: ..." for the remote operation of node t
ApiError(t) == [k |-> "apierror", t |-> t, main |-> "none", of |-> {}]
\* "Exception: ..." for the remote operation of node t
ExcText(t) == [k |-> "exception", t |-> t, main |-> "none", of |-> {}]
\* a variant of FallbackText that keeps the main report and drops the rest
FallbackWithoutSubs(t, subs) ==
    [k |-> "fallback", t |-> t, main |-> task[t].report.k, of |-> {}]
\* what synthesize_findings returns for (prompt of t, the text node t holds as
\* its report, sub_reports): main is the kind of that text
SynthText(t, subs) ==
    [k |-> "synth", t |-> t, main |-> task[t].report.k, of |-> subs]
\* its fallback: main_report, a marker, then every sub-report under a label
FallbackText(t, subs) ==
    [k |-> "fallback", t |-> t, main |-> task[t].report.k, of |-> subs]

NoList == [limit |-> 0, probe |-> <<>>, sessions |-> <<>>, snap |-> <<>>,
           result |-> <<>>, selects |-> 0]

\* no call of a client is recorded
NoCall == [op |-> "none"]

Min(a, b) == IF a < b THEN a ELSE b

(* --------------------------- Session Store ---------------------------- *)


\* Python's optional list of paths: None is {}, a list l is {l}; a path is a
\* string, and the run itself uploads nothing
NoFiles == {}

\* a variant of JsonFiles that stores the empty list whatever is passed
JsonOfNoFiles(files) == [json |-> <<>>]

\* json.dumps(files or []): the JSON text of the list, of [] for None
JsonFiles(files) ==
    [json |-> IF files = {} THEN <<>> ELSE CHOOSE l \in files : TRUE]

\* the row create_session inserts: status is always 'running'
NewRow(iid, prompt, files, pid, parent_id, depth) ==
    [iid |-> iid, prompt |-> prompt, status |-> "running", result |-> NoText,
     files |-> JsonFiles(files),
     pid |-> pid, parent_id |-> parent_id, depth |-> depth]

\* rows `ids` get a new updated_at: they lead the ORDER BY updated_at DESC
Touch(rec, ids) ==
    SelectSeq(rec, LAMBDA i : i \in ids) \o SelectSeq(rec, LAMBDA i : i \notin ids)

\* a variant of create_session that stores the default depth whatever is passed
create_session_default_depth(iid, prompt, files, pid, parent_id, depth) ==
    /\ rows' = Append(rows, NewRow(iid, prompt, files, pid, parent_id, 1))
    /\ recency' = <<Len(rows) + 1>> \o recency

create_session(iid, prompt, files, pid, parent_id, depth) ==
    /\ rows' = Append(rows, NewRow(iid, prompt, files, pid, parent_id, depth))
    /\ recency' = <<Len(rows) + 1>> \o recency

update_session_pid(session_id, pid) ==
    /\ rows' = [i \in DOMAIN rows |->
                  IF i = session_id THEN [rows[i] EXCEPT !.pid = pid] ELSE rows[i]]
    /\ recency' = recency

\* a variant of update_session_interaction_id that leaves the status as it is
update_session_interaction_id_keep_status(session_id, iid) ==
    /\ rows' = [i \in DOMAIN rows |->
                  IF i = session_id THEN [rows[i] EXCEPT !.iid = iid] ELSE rows[i]]
    /\ recency' = Touch(recency, {session_id} \cap DOMAIN rows)

update_session_interaction_id(session_id, iid) ==
    /\ rows' = [i \in DOMAIN rows |->
                  IF i = session_id
                  THEN [rows[i] EXCEPT !.iid = iid, !.status = "running"]
                  ELSE rows[i]]
    /\ recency' = Touch(recency, {session_id} \cap DOMAIN rows)

\* a variant of update_session that writes the result and leaves the status
update_session_keep_status(iid, status, result) ==
    /\ rows' = [i \in DOMAIN rows |->
                  IF rows[i].iid = iid
                  THEN [rows[i] EXCEPT !.result = IF result # NoText THEN result ELSE @]
                  ELSE rows[i]]
    /\ recency' = Touch(recency, {i \in DOMAIN rows : rows[i].iid = iid})

\* a variant of update_session that also writes the rows naming the row as
\* their parent
update_session_and_children(iid, status, result) ==
    LET hit == {i \in DOMAIN rows : rows[i].iid = iid}
        all == hit \cup {i \in DOMAIN rows : rows[i].parent_id \in hit}
    IN /\ rows' = [i \in DOMAIN rows |->
                     IF i \in all
                     THEN [rows[i] EXCEPT !.status = status,
                                          !.result = IF result # NoText THEN result ELSE @]
                     ELSE rows[i]]
       /\ recency' = Touch(recency, all)

\* UPDATE ... WHERE interaction_id = ?; result is written only when truthy
update_session(iid, status, result) ==
    /\ rows' = [i \in DOMAIN rows |->
                  IF rows[i].iid = iid
                  THEN [rows[i] EXCEPT !.status = status,
                                       !.result = IF result # NoText THEN result ELSE @]
                  ELSE rows[i]]
    /\ recency' = Touch(recency, {i \in DOMAIN rows : rows[i].iid = iid})

\* a variant of ProbeDead for which no probe outcome counts as dead
ProbeNeverDead(outcome) == FALSE

\* os.kill(pid, 0) raising any OSError counts as dead
ProbeDead(outcome) == outcome # "ok"

\* a variant of ParentDead that looks at the parent's pid only
ParentDeadByPidOnly(parent, probe) ==
    parent.pid # 0 /\ probe[parent.pid] # "ok"

\* the parent branch: finished parent, or running parent with a dead pid
ParentDead(parent, probe) ==
    \/ parent.status \in Terminal
    \/ /\ parent.pid # 0
       /\ ProbeDead(probe[parent.pid])

\* a variant of IsDead that takes a row with neither pid nor parent for dead
IsDeadUnlessOwned(s, rs, probe) ==
    IF s.pid # 0 THEN ProbeDead(probe[s.pid])
    ELSE IF s.parent_id # 0
         THEN /\ s.parent_id \in DOMAIN rs
              /\ ParentDead(rs[s.parent_id], probe)
         ELSE TRUE

\* is_dead for the fetched row s, against the table rs as it is stored now
IsDead(s, rs, probe) ==
    IF s.pid # 0 THEN ProbeDead(probe[s.pid])
    ELSE IF s.parent_id # 0
         THEN /\ s.parent_id \in DOMAIN rs
              /\ ParentDead(rs[s.parent_id], probe)
         ELSE FALSE

\* SELECT pid, status FROM sessions WHERE id = parent_id: one per such row
ParentSelects(s) ==
    IF s.status = "running" /\ s.pid = 0 /\ s.parent_id # 0 THEN 1 ELSE 0

\* the for-loop of list_sessions over the fetched rows, in fetch order
RECURSIVE ListLoop(_, _, _, _)
ListLoop(ids, snap, probe, acc) ==
    IF ids = <<>> THEN acc
    ELSE LET id == Head(ids)
             s == snap[id]
             dead == s.status = "running" /\ IsDead(s, acc.rows, probe)
             st == IF dead THEN "crashed" ELSE s.status
         IN ListLoop(Tail(ids), snap, probe,
                [rows |-> IF dead
                          THEN [acc.rows EXCEPT ![id].status = "crashed"]
                          ELSE acc.rows,
                 result |-> Append(acc.result, [id |-> id, status |-> st]),
                 selects |-> acc.selects + ParentSelects(s)])

\* a variant of Fetched that ignores the limit
FetchedAll(limit) == recency

\* SELECT * FROM sessions ORDER BY updated_at DESC LIMIT ?
Fetched(limit) == SubSeq(recency, 1, Min(limit, Len(recency)))

\* the whole call: what it leaves stored, what it returns, its SELECT count
ListOutcome(limit, probe) ==
    ListLoop(Fetched(limit), rows, probe,
             [rows |-> rows, result |-> <<>>, selects |-> 1])

\* list_sessions with the call and its answer kept in `listed`
list_sessions(limit, probe) ==
    LET out == ListOutcome(limit, probe)
    IN /\ rows' = out.rows
       /\ recency' = recency
       /\ listed' = [limit |-> limit, probe |-> probe, sessions |-> Fetched(limit),
                     snap |-> rows, result |-> out.result, selects |-> out.selects]

(* ------------------------- the orchestrator --------------------------- *)

FreeTask ==
    [pc |-> "free", depth |-> 0, parent |-> 0, adopt |-> 0, iid |-> 0,
     resumed |-> FALSE, marker |-> 0, from |-> 0,
     term |-> "none", obs |-> "none", sid |-> 0,
     report |-> NoText,
     gaps |-> FALSE, questions |-> 0, kids |-> {}, done |-> {}, timedOut |-> FALSE,
     subs |-> {}, ret |-> NoText, exc |-> FALSE, sigint |-> FALSE,
     fault |-> FALSE, empty |-> FALSE]

NoRun == [maxDepth |-> 0, breadth |-> 0, stream |-> FALSE, mode |-> "none",
          adoptId |-> 0]

\* the process the run executes in; the start command stores its pid
RunPid == CHOOSE p \in Pids : TRUE

\* main: request.depth > 1 goes through start_recursive_research
Recursive == run.maxDepth > 1

\* is_leaf = (current_depth >= max_depth)
IsLeaf(d) == d >= run.maxDepth

\* the node request's adopt_session_id of the root: main passes the command
\* line's; _execute_recursion_level builds node_req without it
RootAdopt(adoptId) == IF Recursive THEN 0 ELSE adoptId

\* stream=(current_depth == 1) in a recursive run, else request.stream
UsesStream(t) == IF Recursive THEN task[t].depth = 1 ELSE run.stream

\* a variant of StatusOnComplete that never marks the row completed
StatusLeftRunning(t) == "running"

\* auto_update_status=is_leaf: 'completed' at a leaf, else stays 'running'
StatusOnComplete(t) == IF IsLeaf(task[t].depth) THEN "completed" ELSE "running"

\* where control goes when start_research_stream / _poll returns
AfterRemote == IF Recursive THEN "returned" ELSE "done"

\* get_session(interaction_id): the first row holding that remote id, or none
GetSession(iid) ==
    IF \E i \in DOMAIN rows : rows[i].iid = iid
    THEN CHOOSE i \in DOMAIN rows :
           /\ rows[i].iid = iid
           /\ \A j \in DOMAIN rows : rows[j].iid = iid => i <= j
    ELSE 0

\* a variant of OnInteractionStart that inserts a row whether or not a
\* placeholder is to be adopted
AlwaysCreateRow(adopt, hasPrompt, iid, prompt) ==
    create_session(iid, prompt, NoFiles, 0, 0, 1)

\* the interaction.start handler of _process_stream, and the same choice in
\* start_research_poll: adopt the placeholder row, else create a row
OnInteractionStart(adopt, hasPrompt, iid, prompt) ==
    IF adopt # 0 THEN update_session_interaction_id(adopt, iid)
    ELSE IF hasPrompt THEN create_session(iid, prompt, NoFiles, 0, 0, 1)
    ELSE UNCHANGED <<rows, recency>>

Set(t, rec) == task' = [task EXCEPT ![t] = rec]

\* no store call of an observer or client is in progress
Idle == listed = NoList /\ call = NoCall

\* the start command: placeholder row, detach, update_session_pid
CmdStart ==
    /\ Idle
    /\ task[1].pc = "cmd" /\ run.mode = "start"
    /\ rows' = Append(rows, [NewRow(PendingStart, 1, NoFiles, 0, 0, 1) EXCEPT !.pid = RunPid])
    /\ recency' = <<Len(rows) + 1>> \o recency
    /\ run' = [run EXCEPT !.adoptId = Len(rows) + 1]
    /\ Set(1, [task[1] EXCEPT !.pc = "begin", !.adopt = RootAdopt(Len(rows) + 1)])
    /\ UNCHANGED <<listed, call>>

\* the TUI's run_live_research: placeholder row, then a streamed request that
\* adopts it, in the TUI's own process
LiveStart ==
    /\ Idle
    /\ task[1].pc = "cmd" /\ run.mode = "live"
    /\ create_session(PendingLive, 1, NoFiles, 0, 0, 1)
    /\ run' = [run EXCEPT !.adoptId = Len(rows) + 1]
    /\ Set(1, [task[1] EXCEPT !.pc = "begin", !.adopt = Len(rows) + 1])
    /\ UNCHANGED <<listed, call>>

(* start_research_stream *)

\* a variant of StreamNoStart that enters the reconnection loop
StreamNoStartRetries(t) ==
    /\ Idle
    /\ task[t].pc = "begin" /\ UsesStream(t)
    /\ Set(t, [task[t] EXCEPT !.pc = "reconnect"])
    /\ UNCHANGED <<rows, recency, listed, call, run>>

\* interactions.create raises, or the stream ends before interaction.start
StreamNoStart(t) ==
    /\ Idle
    /\ task[t].pc = "begin" /\ UsesStream(t)
    /\ Set(t, [task[t] EXCEPT !.pc = AfterRemote])
    /\ UNCHANGED <<rows, recency, listed, call, run>>

\* the interaction.start event of the initial stream
StreamStart(t) ==
    /\ Idle
    /\ task[t].pc = "begin" /\ UsesStream(t)
    /\ OnInteractionStart(task[t].adopt, TRUE, t, t)
    /\ Set(t, [task[t] EXCEPT !.pc = "stream", !.iid = t])
    /\ UNCHANGED <<listed, call, run>>

\* the event sequence ends with no terminal event: the connection is lost
StreamDrop(t) ==
    /\ Idle
    /\ task[t].pc = "stream"
    /\ Set(t, [task[t] EXCEPT !.pc = "reconnect"])
    /\ UNCHANGED <<rows, recency, listed, call, run>>

\* consuming the initial stream raises: except Exception marks the row failed
StreamRaiseInitial(t) ==
    /\ Idle
    /\ task[t].pc = "stream" /\ ~task[t].resumed
    /\ update_session(task[t].iid, "failed", ExcText(t))
    /\ Set(t, [task[t] EXCEPT !.pc = AfterRemote, !.obs = "raised"])
    /\ UNCHANGED <<listed, call, run>>

\* consuming a resumed stream raises: logged inside the reconnection loop
StreamRaiseResumed(t) ==
    /\ Idle
    /\ task[t].pc = "stream" /\ task[t].resumed
    /\ Set(t, [task[t] EXCEPT !.pc = "reconnect"])
    /\ UNCHANGED <<rows, recency, listed, call, run>>

\* the reconnection loop: sleep, then
\* interactions.get(id=interaction_id[0], stream=True, last_event_id=last_event_id[0])
Reconnect(t) ==
    /\ Idle
    /\ task[t].pc = "reconnect"
    /\ Set(t, [task[t] EXCEPT !.pc = "stream", !.resumed = TRUE,
                              !.from = task[t].marker])
    /\ UNCHANGED <<rows, recency, listed, call, run>>

\* a resumed stream replays interaction.start (no prompt is passed on resume)
ResumeStartReplay(t) ==
    /\ Idle
    /\ task[t].pc = "stream" /\ task[t].resumed
    /\ task[t].adopt # 0
    /\ OnInteractionStart(task[t].adopt, FALSE, task[t].iid, t)
    /\ UNCHANGED <<listed, call, run, task>>

\* if event.event_id: last_event_id_ref[0] = event.event_id
OnEventId(marker, event_id) == IF event_id # 0 THEN event_id ELSE marker

\* the stream delivers an event that is neither interaction.start nor terminal
\* (a content.delta): with no event_id (0), or with the id that follows the
\* last one this connection delivered or was asked to resume after
StreamEvent(t) ==
    /\ Idle
    /\ task[t].pc = "stream"
    /\ task[t].marker < MaxEvents
    /\ \E event_id \in {0, task[t].marker + 1} :
         Set(t, [task[t] EXCEPT !.marker = OnEventId(@, event_id)])
    /\ UNCHANGED <<rows, recency, listed, call, run>>

\* a variant of TerminalEvents in which no event ends the stream
NoTerminalEvents == {}

\* the terminal events of a stream: event_type in ['interaction.complete', 'error']
TerminalEvents == {"complete", "error"}

\* interaction.complete or error: is_complete, the loop ends
StreamTerminal(t) ==
    /\ Idle
    /\ task[t].pc = "stream"
    /\ \E ev \in TerminalEvents :
         Set(t, [task[t] EXCEPT !.pc = "fetchfinal", !.term = ev])
    /\ UNCHANGED <<rows, recency, listed, call, run>>

\* the final interactions.get has outputs: the report is stored
FetchFinalText(t) ==
    /\ Idle
    /\ task[t].pc = "fetchfinal"
    /\ update_session(task[t].iid, StatusOnComplete(t), Report(t))
    /\ Set(t, [task[t] EXCEPT !.pc = AfterRemote, !.term = "none",
                              !.obs = "completed"])
    /\ UNCHANGED <<listed, call, run>>

\* the final interactions.get has no outputs, or raises (logged): no write
FetchFinalNone(t) ==
    /\ Idle
    /\ task[t].pc = "fetchfinal"
    /\ Set(t, [task[t] EXCEPT !.pc = AfterRemote, !.term = "none"])
    /\ UNCHANGED <<rows, recency, listed, call, run>>

(* start_research_poll *)

AtPollCreate(t) == task[t].pc = "begin" /\ ~UsesStream(t)

\* interactions.create raises: nothing is written, and `return interaction.id`
\* raises in turn, out of the node's execution
PollCreateFail(t) ==
    /\ Idle
    /\ AtPollCreate(t)
    /\ Set(t, [task[t] EXCEPT !.pc = "done", !.exc = TRUE])
    /\ UNCHANGED <<rows, recency, listed, call, run>>

\* interactions.create succeeds: adopt the placeholder row, else create a row
PollCreate(t) ==
    /\ Idle
    /\ AtPollCreate(t)
    /\ OnInteractionStart(task[t].adopt, TRUE, t, t)
    /\ Set(t, [task[t] EXCEPT !.pc = "polling", !.iid = t])
    /\ UNCHANGED <<listed, call, run>>

\* interaction.status == "completed"
PollCompleted(t) ==
    /\ Idle
    /\ task[t].pc = "polling"
    /\ update_session(task[t].iid, StatusOnComplete(t), Report(t))
    /\ Set(t, [task[t] EXCEPT !.pc = AfterRemote, !.obs = "completed"])
    /\ UNCHANGED <<listed, call, run>>

\* interaction.status == "failed"
PollFailed(t) ==
    /\ Idle
    /\ task[t].pc = "polling"
    /\ update_session(task[t].iid, "failed", ApiError(t))
    /\ Set(t, [task[t] EXCEPT !.pc = AfterRemote, !.obs = "failed"])
    /\ UNCHANGED <<listed, call, run>>

\* interactions.get raises inside the polling loop: except Exception
PollRaise(t) ==
    /\ Idle
    /\ task[t].pc = "polling"
    /\ update_session(task[t].iid, "failed", ExcText(t))
    /\ Set(t, [task[t] EXCEPT !.pc = AfterRemote, !.obs = "raised"])
    /\ UNCHANGED <<listed, call, run>>

(* _execute_recursion_level, steps 3 to 7 *)

\* step 3 and 4: fetch the row by remote id; give up, return at a leaf, or go on
FetchResult(t) ==
    /\ Idle
    /\ task[t].pc = "returned"
    /\ LET s == GetSession(task[t].iid)
       IN IF s = 0 \/ (rows[s].status # "completed" /\ rows[s].result = NoText)
          THEN Set(t, [task[t] EXCEPT !.pc = "done"])
          ELSE IF IsLeaf(task[t].depth)
               THEN Set(t, [task[t] EXCEPT !.pc = "done", !.sid = s,
                                            !.report = rows[s].result,
                                            !.ret = rows[s].result])
               ELSE Set(t, [task[t] EXCEPT !.pc = "gaps", !.sid = s,
                                            !.report = rows[s].result])
    /\ UNCHANGED <<rows, recency, listed, call, run>>

\* step 5 with no questions (or a failed analysis): finalize with the report
GapsNone(t) ==
    /\ Idle
    /\ task[t].pc = "gaps"
    /\ update_session(task[t].iid, "completed", task[t].report)
    /\ Set(t, [task[t] EXCEPT !.pc = "done", !.gaps = TRUE, !.ret = task[t].report])
    /\ UNCHANGED <<listed, call, run>>

FreeTasks == {c \in Tasks : task[c].pc = "free"}

\* the k lowest free task slots
RECURSIVE Lowest(_, _)
Lowest(S, k) ==
    IF k = 0 \/ S = {} THEN {}
    ELSE LET m == CHOOSE x \in S : \A y \in S : x <= y
         IN {m} \cup Lowest(S \ {m}, k - 1)

\* a variant of Submitted that leaves the last question out
SubmittedButLast(k) == Lowest(FreeTasks, k - 1)

\* for q in questions: futures.append(executor.submit(...)), for k questions
Submitted(k) == Lowest(FreeTasks, k)

\* step 5 and 6: one executor.submit per question returned
GapsSpawn(t, k) ==
    /\ Idle
    /\ task[t].pc = "gaps"
    /\ k <= Cardinality(FreeTasks)
    /\ LET new == Submitted(k)
       IN task' = [c \in Tasks |->
                    IF c = t THEN [task[t] EXCEPT !.pc = "waiting", !.gaps = TRUE,
                                                  !.questions = k, !.kids = new]
                    ELSE IF c \in new
                         THEN [FreeTask EXCEPT !.pc = "queued", !.parent = t,
                                               !.depth = task[t].depth + 1]
                         ELSE task[c]]
    /\ UNCHANGED <<rows, recency, listed, call, run>>

Finished(c) == task[c].pc = "done"
Active(c) == task[c].pc \notin {"free", "queued", "done"}

\* a variant of ChildStart for an executor that starts every future at once
ChildStartUnbounded(c) ==
    /\ Idle
    /\ task[c].pc = "queued"
    /\ create_session(PendingRecursion, c, NoFiles, 0, task[task[c].parent].sid, task[c].depth)
    /\ Set(c, [task[c] EXCEPT !.pc = "begin", !.adopt = Len(rows) + 1])
    /\ UNCHANGED <<listed, call, run>>

\* ThreadPoolExecutor(max_workers=breadth): a worker takes the oldest queued
\* future while fewer than breadth of this parent's futures are running; the
\* child begins with create_session("pending_recursion", ..., parent_id, depth)
ChildStart(c) ==
    /\ Idle
    /\ task[c].pc = "queued"
    /\ LET sib == task[task[c].parent].kids
       IN /\ \A d \in sib : task[d].pc = "queued" => c <= d
          /\ Cardinality({d \in sib : Active(d)}) < run.breadth
    /\ create_session(PendingRecursion, c, NoFiles, 0, task[task[c].parent].sid, task[c].depth)
    /\ Set(c, [task[c] EXCEPT !.pc = "begin", !.adopt = Len(rows) + 1])
    /\ UNCHANGED <<listed, call, run>>

\* concurrent.futures.wait returns because every future is done
WaitAllDone(t) ==
    /\ Idle
    /\ task[t].pc = "waiting"
    /\ \A c \in task[t].kids : Finished(c)
    /\ Set(t, [task[t] EXCEPT !.pc = "shutdown", !.done = task[t].kids])
    /\ UNCHANGED <<rows, recency, listed, call, run>>

\* concurrent.futures.wait returns because recursion_timeout elapsed
WaitTimeout(t) ==
    /\ Idle
    /\ task[t].pc = "waiting"
    /\ \E c \in task[t].kids : ~Finished(c)
    /\ Set(t, [task[t] EXCEPT !.pc = "shutdown", !.timedOut = TRUE,
                              !.done = {c \in task[t].kids : Finished(c)}])
    /\ UNCHANGED <<rows, recency, listed, call, run>>

\* a variant of SubReports that collects from every future, done in time or not
AllChildReports(t) ==
    {task[c].ret : c \in {d \in task[t].kids : ~task[d].exc /\ task[d].ret # NoText}}

\* for f in done: res = f.result(); if res: sub_reports.append(res)
SubReports(t) ==
    {task[c].ret : c \in {d \in task[t].done : ~task[d].exc /\ task[d].ret # NoText}}

\* leaving the `with ThreadPoolExecutor` block: shutdown(wait=True) joins every
\* worker; then `if not sub_reports: return report`
ExecutorShutdown(t) ==
    /\ Idle
    /\ task[t].pc = "shutdown"
    /\ \A c \in task[t].kids : Finished(c)
    /\ IF SubReports(t) = {}
       THEN Set(t, [task[t] EXCEPT !.pc = "done", !.ret = task[t].report])
       ELSE Set(t, [task[t] EXCEPT !.pc = "synth", !.subs = SubReports(t)])
    /\ UNCHANGED <<rows, recency, listed, call, run>>

\* a variant of Synthesize that gives up when the node's row is stored crashed
SynthesizeUnlessCrashed(t) ==
    /\ Idle
    /\ task[t].pc = "synth"
    /\ rows[task[t].sid].status # "crashed"
    /\ \E final \in {SynthText(t, task[t].subs), FallbackText(t, task[t].subs)} :
         /\ update_session(task[t].iid, "completed", final)
         /\ Set(t, [task[t] EXCEPT !.pc = "done", !.ret = final])
    /\ UNCHANGED <<listed, call, run>>

\* step 7: synthesize_findings (its own error gives the fallback text), then
\* update_session(interaction_id, "completed", result=final_report)
Synthesize(t) ==
    /\ Idle
    /\ task[t].pc = "synth"
    /\ \E final \in {SynthText(t, task[t].subs), FallbackText(t, task[t].subs)} :
         /\ update_session(task[t].iid, "completed", final)
         /\ Set(t, [task[t] EXCEPT !.pc = "done", !.ret = final])
    /\ UNCHANGED <<listed, call, run>>

(* the list command, run by an observer while the run goes on *)

\* the run's process answers the probe until main returns
RunProbe == [p \in Pids |-> IF p = RunPid /\ task[1].pc # "done" THEN "ok" ELSE "esrch"]

\* `deep-research list` run to its end by an observer
ListSessions ==
    /\ Idle
    /\ rows' = ListOutcome(ListLimit, RunProbe).rows
    /\ UNCHANGED <<recency, listed, call, run, task>>

\* the caller takes what list_sessions returned
ListDone ==
    /\ listed # NoList
    /\ listed' = NoList
    /\ UNCHANGED <<rows, recency, call, run, task>>

Init ==
    /\ rows = <<>>
    /\ recency = <<>>
    /\ listed = NoList
    /\ call = NoCall
    /\ \E d \in 1..MaxDepth, b \in 1..MaxBreadth, s \in BOOLEAN,
          m \in {"research", "start", "live"} :
         \* inputs the run never reads are fixed: --stream in a recursive run,
         \* --breadth in a run of depth 1
         /\ d > 1 => ~s
         /\ d = 1 => b = 1
         \* the start command passes no --stream on; the TUI streams at depth 1
         /\ m = "start" => ~s
         /\ m = "live" => s /\ d = 1
         /\ run = [maxDepth |-> d, breadth |-> b, stream |-> s, mode |-> m,
                   adoptId |-> 0]
         /\ task = [t \in Tasks |->
                      IF t = 1
                      THEN [FreeTask EXCEPT !.depth = 1,
                                            !.pc = IF m = "research" THEN "begin" ELSE "cmd"]
                      ELSE FreeTask]

Next ==
    \/ CmdStart
    \/ LiveStart
    \/ \E t \in Tasks :
         \/ StreamNoStart(t) \/ StreamStart(t) \/ StreamDrop(t)
         \/ StreamRaiseInitial(t) \/ StreamRaiseResumed(t) \/ Reconnect(t)
         \/ ResumeStartReplay(t) \/ StreamTerminal(t)
         \/ FetchFinalText(t) \/ FetchFinalNone(t)
         \/ PollCreateFail(t) \/ PollCreate(t)
         \/ PollCompleted(t) \/ PollFailed(t) \/ PollRaise(t)
         \/ FetchResult(t) \/ GapsNone(t)
         \/ (\E k \in 1..MaxQuestions : GapsSpawn(t, k))
         \/ ChildStart(t) \/ WaitAllDone(t) \/ WaitTimeout(t)
         \/ ExecutorShutdown(t) \/ Synthesize(t)
    \/ ListSessions

Spec == Init /\ [][Next]_vars

\* the steps node t's thread takes by itself once it is scheduled, and the
\* answers of the provider that end a create, a poll or a one-shot call
NodeStep(t) ==
    \/ StreamNoStart(t) \/ StreamStart(t) \/ StreamRaiseInitial(t) \/ Reconnect(t)
    \/ StreamTerminal(t) \/ FetchFinalText(t) \/ FetchFinalNone(t)
    \/ PollCreateFail(t) \/ PollCreate(t)
    \/ PollCompleted(t) \/ PollFailed(t) \/ PollRaise(t)
    \/ FetchResult(t) \/ GapsNone(t)
    \/ (\E k \in 1..MaxQuestions : GapsSpawn(t, k))
    \/ ChildStart(t) \/ WaitAllDone(t) \/ WaitTimeout(t)
    \/ ExecutorShutdown(t) \/ Synthesize(t)

\* the research command run by itself: no start command or TUI before it, no
\* observer beside it
FairInit == Init /\ run.mode = "research"

\* a node's own steps, and the breaks of its stream
FairNext ==
    \E t \in Tasks : NodeStep(t) \/ StreamDrop(t) \/ StreamRaiseResumed(t)

\* that run under the assumptions of a live environment: the process keeps
\* being scheduled and every create, poll and one-shot completion call is
\* answered (weak fairness of the nodes' steps), and every remote operation
\* reaches a terminal status, so a stream that is resumed again and again
\* delivers its terminal event in the end (strong fairness of StreamTerminal)
FairSpec ==
    /\ FairInit /\ [][FairNext]_vars
    /\ WF_vars(\E t \in Tasks : NodeStep(t))
    /\ SF_vars(\E t \in Tasks : StreamTerminal(t))

\* the research command one level deeper than the other runs go, the least
\* --depth at which a node is both a child and a parent, beside the observer
DeepInit ==
    /\ rows = <<>>
    /\ recency = <<>>
    /\ listed = NoList
    /\ call = NoCall
    /\ \E b \in 1..MaxBreadth :
         run = [maxDepth |-> MaxDepth + 1, breadth |-> b, stream |-> FALSE,
                mode |-> "research", adoptId |-> 0]
    /\ task = [t \in Tasks |->
                 IF t = 1 THEN [FreeTask EXCEPT !.depth = 1, !.pc = "begin"]
                 ELSE FreeTask]

DeepNext == FairNext \/ ListSessions

DeepSpec == DeepInit /\ [][DeepNext]_vars

\* the same run with the events between interaction.start and the terminal
\* event, which only move the resume marker
StreamNext == Next \/ \E t \in Tasks : StreamEvent(t)

StreamSpec == Init /\ [][StreamNext]_vars

(* ------------- the run when the operator interrupts it (Ctrl-C) -------- *)

\* Python raises KeyboardInterrupt in the main thread only: in the frame of
\* the root, node 1; a run is interrupted once
Interruptible == Idle /\ ~task[1].sigint

\* in start_research_stream's try block: `except KeyboardInterrupt` stores
\* cancelled if the interaction id is known, and the function returns it
InterruptStream ==
    /\ Interruptible
    /\ UsesStream(1)
    /\ task[1].pc \in {"begin", "stream", "reconnect", "fetchfinal"}
    /\ IF task[1].iid # 0
       THEN update_session(task[1].iid, "cancelled", NoText)
       ELSE UNCHANGED <<rows, recency>>
    /\ Set(1, [task[1] EXCEPT !.pc = AfterRemote, !.term = "none", !.sigint = TRUE])
    /\ UNCHANGED <<listed, call, run>>

\* in start_research_poll's try block, run by the main thread: `except
\* KeyboardInterrupt` stores cancelled if `interaction` is bound; if it is
\* not, `return interaction.id` raises
InterruptPoll ==
    /\ Interruptible
    /\ ~UsesStream(1)
    /\ task[1].pc \in {"begin", "polling"}
    /\ IF task[1].pc = "polling"
       THEN /\ update_session(task[1].iid, "cancelled", NoText)
            /\ Set(1, [task[1] EXCEPT !.pc = AfterRemote, !.sigint = TRUE])
       ELSE /\ UNCHANGED <<rows, recency>>
            /\ Set(1, [task[1] EXCEPT !.pc = "done", !.exc = TRUE, !.sigint = TRUE])
    /\ UNCHANGED <<listed, call, run>>

\* in _execute_recursion_level outside the two requests (get_session, the gap
\* analysis, the synthesis): nothing catches it, it leaves the run
InterruptLevel ==
    /\ Interruptible
    /\ task[1].pc \in {"returned", "gaps", "synth"}
    /\ Set(1, [task[1] EXCEPT !.pc = "done", !.exc = TRUE, !.sigint = TRUE])
    /\ UNCHANGED <<rows, recency, listed, call, run>>

\* inside the `with ThreadPoolExecutor` block (concurrent.futures.wait, the
\* loop over done): nothing catches it; the block's exit joins the workers
InterruptFanOut ==
    /\ Interruptible
    /\ task[1].pc \in {"waiting", "shutdown"}
    /\ Set(1, [task[1] EXCEPT !.pc = "unwinding", !.sigint = TRUE])
    /\ UNCHANGED <<rows, recency, listed, call, run>>

\* shutdown(wait=True) has joined every child: KeyboardInterrupt leaves the run
InterruptedExit ==
    /\ Idle
    /\ task[1].pc = "unwinding"
    /\ \A c \in task[1].kids : Finished(c)
    /\ Set(1, [task[1] EXCEPT !.pc = "done", !.exc = TRUE])
    /\ UNCHANGED <<rows, recency, listed, call, run>>

InterruptNext ==
    \/ Next
    \/ InterruptStream \/ InterruptPoll \/ InterruptLevel \/ InterruptFanOut
    \/ InterruptedExit

InterruptSpec == Init /\ [][InterruptNext]_vars

(* -------- the run when the gap analysis returns empty questions -------- *)

\* step 5 and 6 for a list of k questions of which those of the children in e
\* are the empty string: `if not questions` looks at the list only, and every
\* q of it is submitted
GapsSpawnEmpty(t, k, e) ==
    /\ Idle
    /\ task[t].pc = "gaps"
    /\ k <= Cardinality(FreeTasks)
    /\ e # {} /\ e \subseteq Submitted(k)
    /\ LET new == Submitted(k)
       IN task' = [c \in Tasks |->
                    IF c = t THEN [task[t] EXCEPT !.pc = "waiting", !.gaps = TRUE,
                                                  !.questions = k, !.kids = new]
                    ELSE IF c \in new
                         THEN [FreeTask EXCEPT !.pc = "queued", !.parent = t,
                                               !.depth = task[t].depth + 1,
                                               !.empty = c \in e]
                         ELSE task[c]]
    /\ UNCHANGED <<rows, recency, listed, call, run>>

QuestionNext ==
    \/ Next
    \/ \E t \in Tasks, k \in 1..MaxQuestions : \E e \in SUBSET Tasks :
         GapsSpawnEmpty(t, k, e)

QuestionSpec == Init /\ [][QuestionNext]_vars

(* ------- the run when a Session Store call raises (sqlite3.Error) ------ *)

\* the handler of an `except Exception` that caught the store's error calls
\* update_session(id, "failed", ...) itself: the store answers this time and
\* the request returns the id, or it raises again, out of the request
RetryFailed(t, iid) ==
    \/ /\ update_session(iid, "failed", ExcText(t))
       /\ Set(t, [task[t] EXCEPT !.pc = AfterRemote, !.iid = iid, !.term = "none",
                                 !.obs = "raised", !.fault = TRUE])
    \/ /\ UNCHANGED <<rows, recency>>
       /\ Set(t, [task[t] EXCEPT !.pc = "done", !.iid = iid, !.term = "none",
                                 !.exc = TRUE, !.fault = TRUE])

\* the interaction.start handler of the initial stream: the adoption or the
\* insert raises, under the function's outer try
StoreRaisesAtStreamStart(t) ==
    /\ Idle
    /\ task[t].pc = "begin" /\ UsesStream(t)
    /\ RetryFailed(t, t)
    /\ UNCHANGED <<listed, call, run>>

\* update_session of the final text raises: caught with the fetch's own
\* `except Exception` and logged as a warning; the request returns the id
StoreRaisesAtFetchFinal(t) ==
    /\ Idle
    /\ task[t].pc = "fetchfinal"
    /\ Set(t, [task[t] EXCEPT !.pc = AfterRemote, !.term = "none", !.fault = TRUE])
    /\ UNCHANGED <<rows, recency, listed, call, run>>

\* start_research_poll: the adoption or the insert after interactions.create,
\* or the update_session of a completed or failed operation, raises
StoreRaisesInPoll(t) ==
    /\ Idle
    /\ AtPollCreate(t) \/ task[t].pc = "polling"
    /\ RetryFailed(t, t)
    /\ UNCHANGED <<listed, call, run>>

\* create_session("pending_recursion", ...) of a child raises: it leaves the
\* child's _execute_recursion_level and is kept in its future
StoreRaisesAtChildCreate(c) ==
    /\ Idle
    /\ task[c].pc = "queued"
    /\ LET sib == task[task[c].parent].kids
       IN /\ \A d \in sib : task[d].pc = "queued" => c <= d
          /\ Cardinality({d \in sib : Active(d)}) < run.breadth
    /\ Set(c, [task[c] EXCEPT !.pc = "done", !.exc = TRUE, !.fault = TRUE])
    /\ UNCHANGED <<rows, recency, listed, call, run>>

\* get_session after the request, or update_session(id, "completed", ...) of
\* step 5 or 7, raises: it leaves the node's _execute_recursion_level
StoreRaisesInLevel(t) ==
    /\ Idle
    /\ task[t].pc \in {"returned", "gaps", "synth"}
    /\ Set(t, [task[t] EXCEPT !.pc = "done", !.exc = TRUE, !.fault = TRUE])
    /\ UNCHANGED <<rows, recency, listed, call, run>>

StorageNext ==
    \/ Next
    \/ \E t \in Tasks :
         \/ StoreRaisesAtStreamStart(t) \/ StoreRaisesAtFetchFinal(t)
         \/ StoreRaisesInPoll(t) \/ StoreRaisesAtChildCreate(t)
         \/ StoreRaisesInLevel(t)

StorageSpec == Init /\ [][StorageNext]_vars

(* ---------------- store-level scenarios (as the tests) ---------------- *)

StoreInit ==
    /\ rows = <<>>
    /\ recency = <<>>
    /\ listed = NoList
    /\ call = NoCall
    /\ run = NoRun
    /\ task = [t \in Tasks |-> FreeTask]

\* create_session(iid, prompt, pid=..., parent_id=...)
SCreate(max) ==
    /\ Idle
    /\ Len(rows) < max
    /\ \E pid \in {0} \cup Pids, parent \in {0} \cup DOMAIN rows :
         create_session(Len(rows) + 1, 0, NoFiles, pid, parent,
                        IF parent = 0 THEN 1 ELSE rows[parent].depth + 1)
    /\ UNCHANGED <<listed, call, run, task>>

\* the owner's update_session calls: completed / failed / cancelled
SUpdate ==
    /\ Idle
    /\ \E i \in DOMAIN rows :
         /\ rows[i].status = "running"
         /\ \/ update_session(rows[i].iid, "completed", Report(i))
            \/ update_session(rows[i].iid, "failed", ApiError(i))
            \/ update_session(rows[i].iid, "cancelled", NoText)
    /\ UNCHANGED <<listed, call, run, task>>

\* list_sessions(limit) under any answers of the liveness probe
SList(max) ==
    /\ Idle
    /\ \E limit \in 1..max, probe \in [Pids -> ProbeOutcomes] :
         list_sessions(limit, probe)
    /\ UNCHANGED <<call, run, task>>

StoreNext == SCreate(MaxRows) \/ SUpdate \/ SList(MaxRows) \/ ListDone

StoreSpec == StoreInit /\ [][StoreNext]_vars

FamilyNext == SCreate(MaxFamily) \/ SUpdate \/ SList(MaxFamily) \/ ListDone

FamilySpec == StoreInit /\ [][FamilyNext]_vars

(* ----- list_sessions statement by statement, beside a row's owner ------ *)

\* the first statement of list_sessions: the SELECT, whose rows the loop
\* then goes through as they were fetched
ListSelect ==
    /\ Idle
    /\ \E limit \in 1..MaxRows :
         listed' = [limit |-> limit, probe |-> <<>>, sessions |-> Fetched(limit),
                    snap |-> rows, result |-> <<>>, selects |-> 1]
    /\ UNCHANGED <<rows, recency, call, run, task>>

\* one pass of the for-loop: the fetched row's status, the probe as it answers
\* now, the parent's row as it is stored now, and the UPDATE ... WHERE id = ?
ListVisit ==
    /\ listed # NoList /\ call = NoCall
    /\ Len(listed.result) < Len(listed.sessions)
    /\ \E probe \in [Pids -> ProbeOutcomes] :
         LET id == listed.sessions[Len(listed.result) + 1]
             out == ListLoop(<<id>>, listed.snap, probe,
                             [rows |-> rows, result |-> listed.result,
                              selects |-> listed.selects])
         IN /\ rows' = out.rows
            /\ listed' = [listed EXCEPT !.probe = probe, !.result = out.result,
                                        !.selects = out.selects]
    /\ UNCHANGED <<recency, call, run, task>>

\* the loop is over: return result
ListReturn ==
    /\ listed # NoList /\ call = NoCall
    /\ Len(listed.result) = Len(listed.sessions)
    /\ listed' = NoList
    /\ UNCHANGED <<rows, recency, call, run, task>>

\* the owner's update_session from its own process: each call is one
\* committed UPDATE, at any time, also between two statements of a list
OwnerUpdate ==
    /\ call = NoCall
    /\ \E i \in DOMAIN rows :
         /\ rows[i].status = "running"
         /\ \/ update_session(rows[i].iid, "completed", Report(i))
            \/ update_session(rows[i].iid, "failed", ApiError(i))
            \/ update_session(rows[i].iid, "cancelled", NoText)
    /\ UNCHANGED <<listed, call, run, task>>

ListRaceNext ==
    SCreate(MaxRows) \/ OwnerUpdate \/ ListSelect \/ ListVisit \/ ListReturn

ListRaceSpec == StoreInit /\ [][ListRaceNext]_vars

(* --------------------- properties of list_sessions -------------------- *)

\* the positions of the list that list_sessions returned
Returned == DOMAIN listed.result
\* the row at position k as it was stored when the call began
Before(k) == listed.snap[listed.result[k].id]
\* the status the call returned at position k
After(k) == listed.result[k].status
\* os.kill raised for the pid, for whatever reason
ProbeFailed(pid) == listed.probe[pid] # "ok"

\* the ancestors of row i in the table rs (a parent's id is below its child's)
RECURSIVE AncestorsOf(_, _)
AncestorsOf(i, rs) ==
    IF rs[i].parent_id = 0 THEN {}
    ELSE {rs[i].parent_id} \cup AncestorsOf(rs[i].parent_id, rs)

\* row d hangs below row a through running rows that have no pid of their own
PidlessBelow(d, a, rs) ==
    /\ a \in AncestorsOf(d, rs)
    /\ \A m \in {d} \cup (AncestorsOf(d, rs) \ ({a} \cup AncestorsOf(a, rs))) :
         rs[m].pid = 0 /\ rs[m].status = "running"

\* C3 (as stated): when the probe of a running row's pid fails, one list call
\* whose result holds the row and its descendants returns and stores crashed
\* for the row and for every running pid-less descendant, at any depth.
C3_CrashReachesDescendants ==
    listed # NoList =>
      \A k \in Returned :
        (Before(k).status = "running" /\ Before(k).pid # 0
            /\ listed.probe[Before(k).pid] = "esrch") =>
          /\ After(k) = "crashed"
          /\ \A j \in Returned :
               PidlessBelow(listed.result[j].id, listed.result[k].id, listed.snap) =>
                 /\ After(j) = "crashed"
                 /\ rows[listed.result[j].id].status = "crashed"

\* C4 (as stated): one list call issues at most 2 SELECTs.
C4_AtMostTwoSelects == listed # NoList => listed.selects <= 2

\* C5 (as stated): a probe that fails for another reason than "no such
\* process" leaves the row running.
C5_PermissionDeniedIsAlive ==
    listed # NoList =>
      \A k \in Returned :
        (Before(k).status = "running" /\ Before(k).pid # 0
            /\ listed.probe[Before(k).pid] = "eperm") =>
          /\ After(k) = "running"
          /\ rows[listed.result[k].id].status = "running"

\* C6: for every returned row that was stored running with a pid, the returned
\* status is crashed if the probe of that pid failed and running if it did
\* not; and every row returned as crashed is stored as crashed when the call
\* returns.
C6_PidRowCrashedIffProbeFails ==
    listed # NoList =>
      \A k \in Returned :
        /\ (Before(k).status = "running" /\ Before(k).pid # 0) =>
             After(k) = (IF ProbeFailed(Before(k).pid) THEN "crashed" ELSE "running")
        /\ After(k) = "crashed" => rows[listed.result[k].id].status = "crashed"

C6_Witness ==
    /\ listed # NoList
    /\ \E k \in Returned :
         /\ Before(k).status = "running" /\ Before(k).pid # 0
         /\ ProbeFailed(Before(k).pid)
         /\ After(k) = "crashed" /\ rows[listed.result[k].id].status = "crashed"

\* the status of row p that the call has in hand when it resolves position k:
\* what this call stored for p if it came to p earlier, else what was stored
StatusSeenAt(k, p) ==
    IF \E j \in Returned : j < k /\ listed.result[j].id = p /\ After(j) = "crashed"
    THEN "crashed"
    ELSE listed.snap[p].status

\* C7: a returned row that was stored running, without pid and with a parent,
\* is returned crashed exactly when the parent's status is completed, failed,
\* cancelled or crashed as the call reads it, or the parent has a pid whose
\* probe fails; otherwise it is returned running.  (The parent's own parent
\* is not consulted: that is the case of C3.)
C7_ChildFollowsParent ==
    listed # NoList =>
      \A k \in Returned :
        (Before(k).status = "running" /\ Before(k).pid = 0 /\ Before(k).parent_id # 0) =>
          LET p == Before(k).parent_id
              gone == \/ StatusSeenAt(k, p) \in {"completed", "failed", "cancelled", "crashed"}
                      \/ listed.snap[p].pid # 0 /\ ProbeFailed(listed.snap[p].pid)
          IN /\ After(k) = (IF gone THEN "crashed" ELSE "running")
             /\ rows[listed.result[k].id].status = After(k)

C7_Witness ==
    /\ listed # NoList
    /\ \E k \in Returned :
         /\ Before(k).status = "running" /\ Before(k).pid = 0
         /\ Before(k).parent_id # 0
         /\ listed.snap[Before(k).parent_id].status = "completed"
         /\ After(k) = "crashed"

(* --------------------- properties of the orchestrator ----------------- *)

\* the nodes that have been started
Nodes == {t \in Tasks : task[t].depth > 0}
\* the row that holds node t's remote id (0: none)
RowOf(t) == IF task[t].iid = 0 THEN 0 ELSE GetSession(task[t].iid)

\* C1 (as stated): once a row's status is completed, failed, cancelled or
\* crashed, no later step changes it to a different status.
C1_TerminalStatusIsFinal ==
    [][\A i \in DOMAIN rows :
          rows[i].status \in Terminal => rows'[i].status = rows[i].status]_vars

\* C2 (as stated): in a run that was given a placeholder id, once the root's
\* remote operation has started, the placeholder row holds its remote id and
\* no other row was created for the root, at every depth setting.
C2_RootAdoptsPlaceholder ==
    (run.adoptId # 0 /\ task[1].iid # 0) =>
      /\ rows[run.adoptId].iid = task[1].iid
      /\ \A i \in DOMAIN rows : rows[i].prompt = 1 => i = run.adoptId

\* C8 (as stated): once the shared timeout has elapsed the parent goes on to
\* synthesis or finalization without waiting for unfinished children.
C8_ParentProceedsAfterTimeout ==
    \A t \in Tasks : task[t].pc = "shutdown" => ENABLED ExecutorShutdown(t)

\* the reports of the children of t that finished within the shared timeout
InTimeReports(t) ==
    {task[c].ret : c \in {d \in task[t].done : ~task[d].exc /\ task[d].ret # NoText}}
\* the children of t that had not finished when the timeout elapsed
Late(t) == task[t].kids \ task[t].done

\* C9 (as stated): if some child has not finished when the timeout elapses,
\* the parent's final result is the synthesis of its prompt, its report and
\* the reports of exactly the children that finished in time.
C9_TimedOutParentSynthesizes ==
    \A t \in Tasks :
      (task[t].timedOut /\ task[t].pc = "done") =>
        task[t].ret \in {SynthText(t, InTimeReports(t)), FallbackText(t, InTimeReports(t))}

C9_ResultOfTimedOutParent ==
    \A t \in Tasks :
      (task[t].timedOut /\ task[t].pc = "done") =>
        IF InTimeReports(t) # {}
        THEN /\ task[t].ret \in {SynthText(t, InTimeReports(t)),
                                 FallbackText(t, InTimeReports(t))}
             /\ rows[task[t].sid].result = task[t].ret
        ELSE task[t].ret = task[t].report

C9_OnlyChildOrListTouchesLateRow ==
    \A t \in Tasks : \A c \in Late(t) :
      (task[t].timedOut /\ task[c].adopt # 0
          /\ rows'[task[c].adopt].status # rows[task[c].adopt].status) =>
        \/ task'[c] # task[c]
        \/ task' = task /\ rows'[task[c].adopt].status = "crashed"

\* C9 (amended): if some child has not finished when the timeout elapses and
\* at least one child that finished in time returned a report, the parent's
\* final result is the synthesis (or its fallback) of its prompt, its report
\* and the reports of exactly those children; if none did, it is the parent's
\* own report unchanged.  A late child's report is never included, and the
\* status of a late child's row changes only by a step of that child or by
\* list_sessions marking it crashed.
C9_PartialSynthesis ==
    [][C9_ResultOfTimedOutParent' /\ C9_OnlyChildOrListTouchesLateRow]_vars

C9_Witness ==
    \E t \in Tasks : \E c \in Late(t) :
      /\ task[t].timedOut /\ task[t].pc = "done"
      /\ InTimeReports(t) # {}
      /\ task[t].ret = SynthText(t, InTimeReports(t))
      /\ task[c].pc = "done" /\ task[c].ret = Report(c)
      /\ task[c].ret \notin task[t].ret.of

get_children(session_id) == {j \in DOMAIN rows : rows[j].parent_id = session_id}

\* C11 (as stated): no row has more child rows than the configured breadth.
C11_ChildRowsWithinBreadth ==
    Recursive => \A i \in DOMAIN rows : Cardinality(get_children(i)) <= run.breadth

\* C12: in a recursive run every row with a parent has its parent's depth
\* plus 1, every row without a parent has depth 1, and every parent row was
\* created before its child (row ids grow with creation), so that the
\* parent links form no cycle.
C12_DepthAndForest ==
    Recursive =>
      \A i \in DOMAIN rows :
        IF rows[i].parent_id = 0
        THEN rows[i].depth = 1
        ELSE /\ rows[i].parent_id \in DOMAIN rows
             /\ rows[i].parent_id < i
             /\ rows[i].depth = rows[rows[i].parent_id].depth + 1

C12_Witness ==
    /\ Recursive
    /\ \E i, j \in DOMAIN rows :
         /\ i # j
         /\ rows[i].parent_id # 0 /\ rows[j].parent_id = rows[i].parent_id
         /\ rows[i].depth = 2 /\ rows[rows[i].parent_id].depth = 1

\* the node has left the `with ThreadPoolExecutor` block: every child has run
Joined(t) == task[t].gaps /\ task[t].pc \in {"synth", "done"}

\* C13: when the Gap Analyzer returned k questions for a node, 0 <= k <=
\* breadth, the rows naming the node's row as parent never number more than
\* k, they are exactly the rows of the children the node started, and once
\* the node's fan-out is over they number exactly k.
C13_ExactlyKChildRows ==
    \A t \in Nodes :
      (task[t].gaps /\ task[t].questions <= run.breadth) =>
        /\ Cardinality(get_children(task[t].sid)) <= task[t].questions
        /\ get_children(task[t].sid) =
             {task[c].adopt : c \in {d \in task[t].kids : task[d].adopt # 0}}
        /\ Joined(t) => Cardinality(get_children(task[t].sid)) = task[t].questions

C13_Witness ==
    \E t \in Nodes :
      /\ Joined(t) /\ task[t].questions = 2 /\ run.breadth >= 2
      /\ Cardinality(get_children(task[t].sid)) = 2

\* the scenario of test_recursive_research: depth 2, the root's research
\* completes, the gap analysis returns two questions, both children complete
\* within the timeout, and the root has returned
TwoChildrenScenario ==
    /\ run.maxDepth = 2
    /\ task[1].pc = "done" /\ task[1].obs = "completed"
    /\ task[1].questions = 2 /\ ~task[1].timedOut
    /\ \A c \in task[1].kids : task[c].obs = "completed"

\* C14: in that scenario the gap analysis was called once (by the root only),
\* the synthesis was called once, by the root, with the root's report and the
\* two children's reports, the root's stored result is what the synthesis
\* returned, and the tree has exactly 3 rows (the root's and its two
\* children's), all completed; a run that was given no placeholder stores no
\* other row.
C14_TwoChildrenEndToEnd ==
    TwoChildrenScenario =>
      LET root == task[1].sid
          tree == {root} \cup get_children(root)
      IN /\ {t \in Tasks : task[t].gaps} = {1}
         /\ {t \in Tasks : task[t].ret.k \in {"synth", "fallback"}} = {1}
         /\ task[1].report = Report(1)
         /\ task[1].subs = {Report(c) : c \in task[1].kids}
         /\ task[1].ret \in {SynthText(1, task[1].subs), FallbackText(1, task[1].subs)}
         /\ task[1].ret.main = "report"
         /\ rows[root].result = task[1].ret
         /\ Cardinality(tree) = 3
         /\ \A i \in tree : rows[i].status = "completed"
         /\ \A i \in get_children(root) : get_children(i) = {}
         /\ run.mode = "research" => Len(rows) = 3

C14_Witness ==
    /\ TwoChildrenScenario /\ run.mode = "research" /\ run.breadth = 2
    /\ task[1].ret.k = "synth"
    /\ Len(rows) = 3 /\ \A i \in DOMAIN rows : rows[i].status = "completed"

\* C15: a node below maxDepth whose gap analysis returned no question (an
\* empty list, or a failed or unparseable answer, which analyze_gaps turns
\* into the empty list) has no child row, submitted nothing, and is stored
\* completed with its own report as result, which is also what it returns.
C15_NoGapsFinalizes ==
    \A t \in Nodes :
      (task[t].gaps /\ task[t].questions = 0) =>
        /\ ~IsLeaf(task[t].depth)
        /\ task[t].pc = "done" /\ task[t].kids = {}
        /\ get_children(task[t].sid) = {}
        /\ rows[task[t].sid].status = "completed"
        /\ rows[task[t].sid].result = task[t].report
        /\ task[t].ret = task[t].report

C15_Witness ==
    \E t \in Nodes :
      /\ task[t].gaps /\ task[t].questions = 0 /\ task[t].report = Report(t)
      /\ rows[task[t].sid].status = "completed"
      /\ rows[task[t].sid].result = Report(t)

\* the node's own research completed, it fanned out, and it left the executor
\* block with no sub-report
FannedOutWithoutReports(t) ==
    /\ task[t].obs = "completed"
    /\ task[t].questions > 0 /\ task[t].pc = "done"
    /\ task[t].subs = {}

\* C16 (as stated): a node that fanned out and got no report from any child
\* is stored completed with its own report as result.
C16_NoChildReportFinalizes ==
    \A t \in Nodes :
      FannedOutWithoutReports(t) =>
        /\ rows[task[t].sid].status = "completed"
        /\ rows[task[t].sid].result = task[t].report

\* text x stands verbatim in text: the fallback text holds its main report and
\* each of its sub-reports unchanged; a synthesized text is the model's own
\* wording and holds nothing for certain
Contains(text, x) ==
    \/ x = text
    \/ /\ text.k = "fallback"
       /\ \/ x \in text.of
          \/ x.k = text.main /\ x.t = text.t /\ x.of = {}

\* C17: when the synthesis call errors, the node's final result contains its
\* own report and every sub-report it collected, verbatim, and the node is
\* stored completed with that result.
C17_SynthesisFailureKeepsData ==
    \A t \in Nodes :
      (task[t].pc = "done" /\ task[t].ret.k = "fallback") =>
        /\ task[t].subs # {}
        /\ Contains(task[t].ret, task[t].report)
        /\ \A x \in task[t].subs : Contains(task[t].ret, x)
        /\ rows[task[t].sid].status = "completed"
        /\ rows[task[t].sid].result = task[t].ret

C17_Witness ==
    \E t \in Nodes :
      /\ task[t].pc = "done" /\ task[t].ret.k = "fallback"
      /\ Cardinality(task[t].subs) = 2
      /\ rows[task[t].sid].status = "completed"
      /\ \A x \in task[t].subs : x \in rows[task[t].sid].result.of

(* ------------------- properties of a failing remote ------------------- *)

\* the texts that describe an error of the remote operation
ErrorTexts == {ApiError(t) : t \in Tasks} \cup {ExcText(t) : t \in Tasks}

\* C18 (as stated): when the provider reports the remote operation failed, by
\* a failed status seen while polling or by an error terminal event of the
\* stream, the request returns with the node's row stored failed and an error
\* description as its result.
C18_RemoteFailureStoredFailed ==
    [][\A t \in Tasks :
         LET reported == \/ task[t].pc = "polling" /\ task'[t].obs = "failed"
                         \/ /\ task[t].pc = "fetchfinal" /\ task[t].term = "error"
                            /\ task'[t].pc # "fetchfinal"
         IN reported =>
              /\ rows'[RowOf(t)].status = "failed"
              /\ rows'[RowOf(t)].result \in ErrorTexts]_vars

\* C19 (as stated): a child whose remote operation failed returns no report:
\* no error description is among the sub-reports a parent hands to the
\* synthesis, and a node whose remote operation failed neither calls the gap
\* analysis nor returns a text.
C19_FailedChildGivesNoReport ==
    \A t \in Nodes :
      /\ task[t].subs \cap ErrorTexts = {}
      /\ task[t].obs = "failed" => (~task[t].gaps /\ task[t].ret = NoText)

\* C20 (as stated): when a stream breaks before a terminal event, by ending
\* early or by raising while it is consumed, on the initial stream or on a
\* resumed one, the request goes on to resume and the row is not stored
\* failed.
C20_TransportFailureIsResumed ==
    [][\A t \in Tasks :
         (task[t].pc = "stream" /\ task'[t].pc \notin {"stream", "fetchfinal"}) =>
           /\ task'[t].pc = "reconnect"
           /\ rows'[RowOf(t)].status # "failed"]_vars

(* ----------------------- properties of the stream --------------------- *)

\* C21 (as stated): every break of a stream before a terminal event is followed
\* by a reconnection; each reconnection asks for the same remote operation id
\* and for replay after the marker of the last event processed that carried
\* one; and the loop is left only into a resumed stream, never by giving up.
C21_ReconnectsFromLastMarker ==
    [][\A t \in Tasks :
         /\ (task[t].pc = "stream" /\ task'[t].pc \notin {"stream", "fetchfinal"}) =>
              task'[t].pc = "reconnect"
         /\ task[t].pc = "reconnect" =>
              /\ task'[t].pc \in {"reconnect", "stream"}
              /\ task'[t].pc = "stream" =>
                   /\ task'[t].iid = task[t].iid
                   /\ task'[t].from = task[t].marker]_vars

(* ---------------------- properties of a row's life -------------------- *)

\* the statuses the result column is tied to
Settled == {"completed", "failed", "cancelled"}

\* a row that has one of these statuses keeps one of them for the rest of the
\* run, so the status stored now tells whether one was ever reached
SettledStays ==
    [][\A i \in DOMAIN rows :
         rows[i].status \in Settled => rows'[i].status \in Settled]_vars

\* C22 (as stated): in every reachable state a row's result is non-null if
\* and only if the row has reached completed, failed or cancelled.
C22_ResultIffSettled ==
    \A i \in DOMAIN rows :
      rows[i].result # NoText <=> rows[i].status \in Settled

\* C23 (as stated): every row is created with status pending; it is stored as
\* running only by a later step, so no row is running in the state it first
\* appears in.
C23_CreatedPending ==
    [][\A i \in DOMAIN rows' :
         i \notin DOMAIN rows => rows'[i].status = "pending"]_vars

(* -------- the store's API: one call of a client on an arranged store --- *)

\* a key as a caller passes it to get_session or update_session: a local id,
\* whose text is all digits, or an interaction id, whose text is not
LocalKey(n) == [digits |-> TRUE, v |-> n]
RemoteKey(x) == [digits |-> FALSE, v |-> x]

\* the keys a client tries: ids and interaction ids of rows that may exist
Keys == {LocalKey(n) : n \in 1..MaxRows} \cup {RemoteKey(x) : x \in 1..MaxRows}

\* get_session: str(key).isdigit() selects by id, else by interaction_id;
\* the answer is the row's id, 0 for None
get_session(key) ==
    IF key.digits
    THEN IF key.v \in DOMAIN rows THEN key.v ELSE 0
    ELSE GetSession(key.v)

\* what a key is compared with in WHERE interaction_id = ?: the digits of a
\* local id are no row's interaction id, as NULL (0) is none
AsInteractionId(key) == IF key.digits THEN 0 ELSE key.v

\* the "\n\n" append_to_result puts between the old result and the new content
Separator == [k |-> "separator", t |-> 0, main |-> "none", of |-> {}]
\* the empty string
EmptyText == [k |-> "empty", t |-> 0, main |-> "none", of |-> {}]
\* the text follow_up appends: a heading, the question and the answer
FollowUpText == [k |-> "followup", t |-> 0, main |-> "none", of |-> {}]

\* a variant of Appended that drops the content the row had
AppendedToNothing(cur, new) ==
    [k |-> "appended", t |-> 0, main |-> "none",
     of |-> {[pos |-> 1, part |-> EmptyText], [pos |-> 2, part |-> Separator],
             [pos |-> 3, part |-> new]}]

\* f"{current_result}\n\n{new_content}" with current_result = row[0] or "":
\* the three parts in their order
Appended(cur, new) ==
    [k |-> "appended", t |-> 0, main |-> "none",
     of |-> {[pos |-> 1, part |-> IF cur = NoText THEN EmptyText ELSE cur],
             [pos |-> 2, part |-> Separator],
             [pos |-> 3, part |-> new]}]

\* SELECT result ... fetchone(); if row: UPDATE ... WHERE interaction_id = ?
append_to_result(iid, new_content) ==
    IF GetSession(iid) # 0
    THEN LET updated_result == Appended(rows[GetSession(iid)].result, new_content)
         IN /\ rows' = [i \in DOMAIN rows |->
                          IF rows[i].iid = iid
                          THEN [rows[i] EXCEPT !.result = updated_result]
                          ELSE rows[i]]
            /\ recency' = Touch(recency, {i \in DOMAIN rows : rows[i].iid = iid})
    ELSE UNCHANGED <<rows, recency>>

\* the files arguments a client passes: None, [] and ["file1.txt"]
FileLists == {NoFiles, {<<>>}, {<<"file1.txt">>}}

\* sid = create_session(iid, prompt, files), with a fresh remote id or a
\* placeholder; `before` keeps the table as the call found it
CallCreate ==
    /\ Idle
    /\ Len(rows) < MaxRows
    /\ \E iid \in {PendingStart, Len(rows) + 1}, files \in FileLists :
         /\ create_session(iid, 1, files, 0, 0, 1)
         /\ call' = [op |-> "create_session", iid |-> iid, prompt |-> 1,
                     files |-> files, before |-> rows, ret |-> Len(rows) + 1]
    /\ UNCHANGED <<listed, run, task>>

\* update_session(key, status, result) with either kind of key
CallUpdate ==
    /\ Idle
    /\ \E key \in Keys, status \in {"completed", "failed", "cancelled"},
          result \in {NoText, Report(0)} :
         /\ update_session(AsInteractionId(key), status, result)
         /\ call' = [op |-> "update_session", key |-> key, status |-> status,
                     result |-> result, before |-> rows]
    /\ UNCHANGED <<listed, run, task>>

\* update_session_interaction_id(id, remoteId) with a remote id no row holds
CallUpdateInteractionId ==
    /\ Idle
    /\ \E id \in 1..MaxRows :
         /\ update_session_interaction_id(id, MaxRows + 1)
         /\ call' = [op |-> "update_session_interaction_id", id |-> id,
                     iid |-> MaxRows + 1, before |-> rows, was |-> recency]
    /\ UNCHANGED <<listed, run, task>>

\* append_to_result(remoteId, text), as follow_up calls it
CallAppend ==
    /\ Idle
    /\ \E iid \in 1..MaxRows :
         /\ append_to_result(iid, FollowUpText)
         /\ call' = [op |-> "append_to_result", iid |-> iid,
                     text |-> FollowUpText, before |-> rows, was |-> recency]
    /\ UNCHANGED <<listed, run, task>>

\* get_session(key)
CallGet ==
    /\ Idle
    /\ \E key \in Keys :
         call' = [op |-> "get_session", key |-> key, ret |-> get_session(key)]
    /\ UNCHANGED <<rows, recency, listed, run, task>>

ApiNext ==
    \/ SCreate(MaxRows) \/ SUpdate
    \/ CallCreate \/ CallUpdate \/ CallUpdateInteractionId \/ CallAppend \/ CallGet

ApiSpec == StoreInit /\ [][ApiNext]_vars

(* ------ append_to_result statement by statement, by several clients ---- *)

Clients == 1..MaxClients

\* the text client c's follow_up appends: its own question and answer
FollowUpOf(c) == [FollowUpText EXCEPT !.t = c]

\* a client that has not called yet
IdleClient == [pc |-> "idle", iid |-> 0, found |-> FALSE, cur |-> NoText]

\* the append_to_result calls in progress, one per client
Appends == IF call = NoCall THEN [c \in Clients |-> IdleClient] ELSE call.by

\* the first statement: SELECT result ... WHERE interaction_id = ?, fetchone();
\* the connection holds no transaction afterwards
AppendSelect(c, iid) ==
    /\ listed = NoList
    /\ Appends[c].pc = "idle"
    /\ LET s == GetSession(iid)
       IN call' = [op |-> "appends",
                   by |-> [Appends EXCEPT ![c] =
                             [pc |-> "read", iid |-> iid, found |-> s # 0,
                              cur |-> IF s # 0 THEN rows[s].result ELSE NoText]]]
    /\ UNCHANGED <<rows, recency, listed, run, task>>

\* `if row:` the second statement, UPDATE ... SET result = updated_result
\* WHERE interaction_id = ?, with the result that was read, and the commit
AppendUpdate(c) ==
    /\ listed = NoList
    /\ Appends[c].pc = "read"
    /\ LET a == Appends[c]
           updated_result == Appended(a.cur, FollowUpOf(c))
       IN /\ IF a.found
             THEN /\ rows' = [i \in DOMAIN rows |->
                                IF rows[i].iid = a.iid
                                THEN [rows[i] EXCEPT !.result = updated_result]
                                ELSE rows[i]]
                  /\ recency' = Touch(recency, {i \in DOMAIN rows : rows[i].iid = a.iid})
             ELSE UNCHANGED <<rows, recency>>
          /\ call' = [call EXCEPT !.by[c].pc = "done"]
    /\ UNCHANGED <<listed, run, task>>

AppendRaceNext ==
    \/ SCreate(MaxRows) \/ SUpdate
    \/ \E c \in Clients : \/ \E iid \in 1..MaxRows : AppendSelect(c, iid)
                          \/ AppendUpdate(c)

AppendRaceSpec == StoreInit /\ [][AppendRaceNext]_vars

(* ---------------------- properties of the store's API ----------------- *)

\* the list a files argument stands for: [] for None
ListOf(files) == IF files = {} THEN <<>> ELSE CHOOSE l \in files : TRUE

\* C24: right after sid = create_session(iid, prompt, files), get_session(sid)
\* returns a row with that interaction id (remote id or placeholder), that
\* prompt, that file list and status running; and the first row of an empty
\* store has id 1.
C24_CreateThenGet ==
    call.op = "create_session" =>
      LET s == get_session(LocalKey(call.ret))
      IN /\ s # 0
         /\ rows[s].iid = call.iid
         /\ rows[s].prompt = call.prompt
         /\ rows[s].files.json = ListOf(call.files)
         /\ rows[s].status = "running"
         /\ call.before = <<>> => call.ret = 1

\* a row with a placeholder and a file list is created in a store that
\* already holds a row
C24_Witness ==
    /\ call.op = "create_session"
    /\ call.iid = PendingStart
    /\ call.files = {<<"file1.txt">>}
    /\ Len(call.before) = 1

\* C25 (as stated): update_session(key, status, result) called with the local
\* id of an existing row, or with its remote id, leaves that row with the
\* status, with the result (when one is passed) and with the newest
\* updated_at.
C25_UpdateByEitherKey ==
    call.op = "update_session" =>
      \A i \in DOMAIN call.before :
        (call.key = LocalKey(i) \/ call.key = RemoteKey(call.before[i].iid)) =>
          /\ rows[i].status = call.status
          /\ rows[i].result = IF call.result # NoText THEN call.result
                              ELSE call.before[i].result
          /\ Head(recency) = i

\* C26: update_session_interaction_id(id, remoteId) leaves row id with
\* interaction id remoteId and status running, whatever its status was; every
\* other field of that row and every other row are as before, no row is added
\* or removed, and the other rows keep their order by updated_at.
C26_UpdateInteractionIdFrame ==
    call.op = "update_session_interaction_id" =>
      /\ DOMAIN rows = DOMAIN call.before
      /\ \A i \in DOMAIN rows :
           IF i = call.id
           THEN /\ rows[i].iid = call.iid
                /\ rows[i].status = "running"
                /\ \A f \in DOMAIN rows[i] \ {"iid", "status"} :
                     rows[i][f] = call.before[i][f]
           ELSE rows[i] = call.before[i]
      /\ SelectSeq(recency, LAMBDA i : i # call.id)
           = SelectSeq(call.was, LAMBDA i : i # call.id)

\* the call is made on a completed row of a store with two rows
C26_Witness ==
    /\ call.op = "update_session_interaction_id"
    /\ Len(rows) = 2
    /\ call.id \in DOMAIN rows
    /\ call.before[call.id].status = "completed"
    /\ call.before[call.id].result # NoText

\* the p-th part of an appended text
Part(text, p) == (CHOOSE x \in text.of : x.pos = p).part

\* C27: after append_to_result(remoteId, text) a row with that remote id holds
\* its previous result (nothing when it had none), then the separator, then
\* text, and its status is as before; when no row has that remote id the
\* store is as before.
C27_AppendKeepsPrefix ==
    call.op = "append_to_result" =>
      IF \E i \in DOMAIN call.before : call.before[i].iid = call.iid
      THEN \A i \in DOMAIN call.before :
             call.before[i].iid = call.iid =>
               /\ i \in DOMAIN rows
               /\ rows[i].result.k = "appended"
               /\ {x.pos : x \in rows[i].result.of} = 1..3
               /\ Part(rows[i].result, 1) = IF call.before[i].result = NoText
                                            THEN EmptyText
                                            ELSE call.before[i].result
               /\ Part(rows[i].result, 2) = Separator
               /\ Part(rows[i].result, 3) = call.text
               /\ rows[i].status = call.before[i].status
      ELSE rows = call.before /\ recency = call.was

\* the text is appended to the report of a completed row
C27_Witness ==
    /\ call.op = "append_to_result"
    /\ \E i \in DOMAIN call.before :
         /\ call.before[i].iid = call.iid
         /\ call.before[i].status = "completed"
         /\ call.before[i].result = Report(i)
         /\ Part(rows[i].result, 1) = Report(i)

(* --------------- properties of interruption and of failures ----------- *)

\* node t is in one of the phases an interrupt can find it in: streaming,
\* polling, or waiting on the fan-out it made from its own completed report
InPhase(t) ==
    \/ task[t].pc \in {"stream", "polling"}
    \/ task[t].pc = "waiting" /\ task[t].obs = "completed"

\* C28 (as stated): at the step the operator's interrupt arrives, every node
\* that is streaming, polling or waiting on its fan-out and has a row is
\* stored as cancelled.
C28_InterruptRecordsCancelled ==
    [][(task'[1].sigint /\ ~task[1].sigint) =>
         \A t \in Nodes :
           (InPhase(t) /\ RowOf(t) # 0) => rows'[RowOf(t)].status = "cancelled"]_vars

\* C29 (as stated): when a Session Store call raised in some node of the run,
\* the top-level call ends with an exception and returns no report.
C29_StorageFailureSurfaced ==
    (Finished(1) /\ \E t \in Nodes : task[t].fault) =>
      (task[1].exc /\ task[1].ret = NoText)

\* C30: under the assumptions of FairSpec the top-level call ends, and every
\* node that fanned out ends by returning a text, without an exception,
\* whatever became of its children: a child that failed, raised or timed out
\* only leaves its report out.
C30_TerminatesAndDegrades ==
    /\ <>(task[1].pc = "done")
    /\ [](\A t \in Nodes :
            (task[t].pc = "done" /\ task[t].kids # {}) =>
              (~task[t].exc /\ task[t].ret # NoText))

\* the root returned a text although one child's remote operation failed and
\* another child raised
C30_Witness ==
    /\ task[1].pc = "done" /\ task[1].ret # NoText
    /\ \E c \in task[1].kids : task[c].obs = "failed"
    /\ \E c \in task[1].kids : task[c].exc

(* ------------------- properties of the fan-out's width ----------------- *)

\* the children of node t whose execution is in progress
Running(t) == {c \in task[t].kids : Active(c)}

\* C31: at every moment the children of one node whose execution is in
\* progress number at most the run's breadth, however many questions the gap
\* analysis returned: the others wait in the executor's queue.
C31_ConcurrencyWithinBreadth ==
    \A t \in Nodes : Cardinality(Running(t)) <= run.breadth

\* more questions than the breadth: as many children as the breadth run while
\* another is still queued
C31_Witness ==
    \E t \in Nodes :
      /\ task[t].questions > run.breadth
      /\ Cardinality(Running(t)) = run.breadth
      /\ \E c \in task[t].kids : task[c].pc = "queued"

(* ------------- properties of a node between report and final ----------- *)

\* node t holds its report and has not returned yet
Unfinalized(t) ==
    task[t].obs = "completed" /\ task[t].pc \in {"returned", "gaps", "waiting", "shutdown", "synth"}

\* C32 (as stated): once a node's remote operation has completed its report is
\* the stored result; the row is completed from then on if the node is at max
\* depth, and otherwise it is running with that result for as long as the node
\* has not finalized, which is what an observer's list shows during fan-out.
C32_RunningWithResultUntilFinal ==
    \A t \in Nodes :
      task[t].obs = "completed" =>
        /\ RowOf(t) # 0
        /\ rows[RowOf(t)].result # NoText
        /\ IsLeaf(task[t].depth) => rows[RowOf(t)].status = "completed"
        /\ (~IsLeaf(task[t].depth) /\ Unfinalized(t)) =>
             /\ rows[RowOf(t)].status = "running"
             /\ rows[RowOf(t)].result = Report(t)

(* ------------------- properties of who writes a row -------------------- *)

\* the step is one of node t's execution (the records of the children it
\* submits change with it: they were free)
Acted(t) == task'[t] # task[t] /\ task[t].pc # "free"

\* the step created row i or changed one of its columns
Written(i) == i \notin DOMAIN rows \/ rows'[i] # rows[i]

\* C33: a step of one node's execution creates or changes no row but that
\* node's own (the row made for its prompt), so a parent never writes a
\* child's row; and a row that has a parent is created and changed only by
\* steps of the node it was made for, the observer's list marking it crashed
\* aside.
C33_OnlyOwnerWrites ==
    [][/\ \A t \in Tasks :
            Acted(t) => \A i \in DOMAIN rows' : Written(i) => rows'[i].prompt = t
       /\ \A i \in DOMAIN rows' :
            (Written(i) /\ rows'[i].parent_id # 0) =>
              \/ Acted(rows'[i].prompt)
              \/ /\ task' = task
                 /\ i \in DOMAIN rows
                 /\ rows'[i] = [rows[i] EXCEPT !.status = "crashed"]]_vars

\* a parent has synthesized and is stored completed with the synthesis while
\* the row of a child that failed is as the child left it
C33_Witness ==
    \E t \in Nodes : \E c \in task[t].kids :
      /\ task[t].pc = "done" /\ task[t].ret.k = "synth"
      /\ rows[task[t].sid].status = "completed"
      /\ task[c].obs = "failed" /\ task[c].adopt # 0
      /\ rows[task[c].adopt].status = "failed"
      /\ rows[task[c].adopt].result = ApiError(c)

(* -------------- properties of a node whose row is marked crashed ------- *)

\* node t is in its fan-out or at its synthesis and its row is stored crashed
CrashedWhileAlive(t) ==
    /\ task[t].pc \in {"waiting", "shutdown", "synth"}
    /\ rows[task[t].sid].status = "crashed"

\* C34: a node whose row an observer's list marked crashed while it is in its
\* fan-out or at its synthesis is not stopped: its wait returns, it leaves the
\* executor once its children have ended, it holds the reports it collected
\* and its synthesis can run; and every node that has synthesized is stored
\* completed with the final report it returns.
C34_CrashedMarkDoesNotStop ==
    \A t \in Nodes :
      /\ CrashedWhileAlive(t) =>
           /\ task[t].pc = "waiting" => ENABLED (WaitAllDone(t) \/ WaitTimeout(t))
           /\ (task[t].pc = "shutdown" /\ \A c \in task[t].kids : Finished(c)) =>
                ENABLED ExecutorShutdown(t)
           /\ task[t].pc = "synth" =>
                /\ task[t].subs = SubReports(t) /\ task[t].subs # {}
                /\ ENABLED Synthesize(t)
      /\ (task[t].pc = "done" /\ task[t].subs # {}) =>
           /\ task[t].ret \in {SynthText(t, task[t].subs), FallbackText(t, task[t].subs)}
           /\ rows[task[t].sid].status = "completed"
           /\ rows[task[t].sid].result = task[t].ret

\* a node's row is crashed while the node, with its own report and a child's
\* report in hand, is about to synthesize
C34_Witness ==
    \E t \in Nodes :
      /\ CrashedWhileAlive(t) /\ task[t].pc = "synth"
      /\ task[t].report = Report(t)
      /\ \E c \in task[t].kids : Report(c) \in task[t].subs

(* ---------------- properties of the questions fanned out --------------- *)

\* C35 (as stated): a question that is the empty string is dropped before the
\* fan-out: no child whose prompt is empty is given a row or executed, here
\* for the children of a node whose own research completed.
C35_EmptyQuestionsDropped ==
    \A c \in Tasks :
      (task[c].empty /\ task[task[c].parent].obs = "completed") =>
        task[c].pc \in {"free", "queued"}

(* --------------- properties of calls that run concurrently ------------- *)

\* C36 (as stated): whatever the interleaving of a list with the owner's
\* update_session, a row the owner has stored completed, failed or cancelled
\* is not stored crashed by a step of a list that fetched it as running.
C36_OwnersStatusNotOverwritten ==
    [][\A i \in DOMAIN rows :
         rows[i].status \in Settled => rows'[i].status # "crashed"]_vars

(* -------------- properties of a stream that never started -------------- *)

\* the streamed request of node t is over and no interaction.start was seen
EndedUnstarted(t) ==
    UsesStream(t) /\ task[t].iid = 0 /\ task[t].pc \notin {"cmd", "begin"}

\* C37: when the initial stream ends or is cut before interaction.start, the
\* request returns no operation id and never enters the reconnection loop or
\* a resumed stream; no row was created for the node; and a placeholder row
\* it was to adopt is as it was created: running, with the placeholder id.
C37_NoStartNoRetry ==
    \A t \in Nodes :
      EndedUnstarted(t) =>
        /\ task[t].pc \in {"returned", "done"}
        /\ ~task[t].resumed /\ task[t].marker = 0
        /\ task[t].ret = NoText
        /\ {i \in DOMAIN rows : rows[i].prompt = t}
             = (IF run.adoptId # 0 THEN {run.adoptId} ELSE {})
        /\ task[t].adopt # 0 =>
             rows[task[t].adopt] = NewRow(PendingLive, t, NoFiles, 0, 0, 1)

\* the TUI's live research ended without a start: its placeholder row is left
C37_Witness ==
    /\ EndedUnstarted(1) /\ task[1].pc = "done"
    /\ task[1].adopt # 0
    /\ rows[task[1].adopt].iid = PendingLive
    /\ rows[task[1].adopt].status = "running"

(* ------------ properties of list_sessions: what it leaves alone -------- *)

\* the row has neither a pid nor a parent
Unowned(r) == r.pid = 0 /\ r.parent_id = 0

\* C38: a row with neither a pid nor a parent is never stored crashed, and a
\* list call returns it with the status it had, whatever the probe answers and
\* however many list calls have been made.
C38_UnownedNeverCrashed ==
    /\ \A i \in DOMAIN rows : Unowned(rows[i]) => rows[i].status # "crashed"
    /\ listed # NoList =>
         \A k \in Returned : Unowned(Before(k)) => After(k) = Before(k).status

\* a list call whose probe fails for every pid returns such a row as running,
\* beside a row it marked crashed
C38_Witness ==
    /\ listed # NoList
    /\ \A p \in Pids : ProbeFailed(p)
    /\ \E k, j \in Returned :
         /\ Unowned(Before(k)) /\ Before(k).status = "running"
         /\ After(k) = "running" /\ rows[listed.result[k].id].status = "running"
         /\ After(j) = "crashed"

\* the columns of a row other than its status
OtherColumns(r) == DOMAIN r \ {"status"}

\* C39: a call list(limit) adds and removes no row and changes no updated_at;
\* a row it changes was stored running, is among the limit most recently
\* updated rows, which are the rows it returns, and differs afterwards in its
\* status only, which is crashed.
C39_ListFrame ==
    [][(listed = NoList /\ listed' # NoList) =>
         LET within == {recency[k] : k \in 1..Min(listed'.limit, Len(recency))}
         IN /\ DOMAIN rows' = DOMAIN rows
            /\ recency' = recency
            /\ {listed'.result[k].id : k \in DOMAIN listed'.result} = within
            /\ \A i \in DOMAIN rows :
                 rows'[i] # rows[i] =>
                   /\ rows[i].status = "running"
                   /\ i \in within
                   /\ rows'[i].status = "crashed"
                   /\ \A f \in OtherColumns(rows[i]) : rows'[i][f] = rows[i][f]]_vars

\* list(1) on two running rows, the older with a pid that does not answer:
\* the newer is marked crashed, the older is as it was
C39_Witness ==
    /\ listed # NoList /\ listed.limit = 1 /\ Len(rows) = 2
    /\ \E i, j \in DOMAIN rows :
         /\ i # j
         /\ listed.snap[i].status = "running" /\ rows[i].status = "crashed"
         /\ listed.snap[j].status = "running" /\ listed.snap[j].pid # 0
         /\ ProbeFailed(listed.snap[j].pid)
         /\ rows[j] = listed.snap[j]

\* text x is one of the texts appended to make `text`
RECURSIVE HoldsAppended(_, _)
HoldsAppended(text, x) ==
    /\ text.k = "appended"
    /\ \/ Part(text, 3) = x
       \/ HoldsAppended(Part(text, 1), x)

\* C40 (as stated): when two append_to_result calls on the same row have run
\* at the same time and both are over, the row's result holds both appended
\* texts, here for a completed row.
C40_BothAppendsKept ==
    call.op = "appends" =>
      \A c, d \in Clients :
        (/\ c # d
         /\ call.by[c].pc = "done" /\ call.by[d].pc = "done"
         /\ call.by[c].found /\ call.by[d].found
         /\ call.by[c].iid = call.by[d].iid) =>
          \A i \in DOMAIN rows :
            (rows[i].iid = call.by[c].iid /\ rows[i].status = "completed") =>
              /\ HoldsAppended(rows[i].result, FollowUpOf(c))
              /\ HoldsAppended(rows[i].result, FollowUpOf(d))

====
